---- MODULE Spec2Model ----
(***************************************************************************)
(* Dense matrix multiply (GEMM) kernels of the mp1 benchmark and the two   *)
(* harness programs that call them.                                        *)
(*                                                                         *)
(*   src/unnamed/part_000   CPU kernels gemm_cpu_o0..o3 and the CPU main   *)
(*   src/gpu/gemm_gpu.cu    GPU kernels gemm_gpu_o0..o3, gemm_cublas and   *)
(*                          the GPU main                                   *)
(*                                                                         *)
(* Matrices are flat row-major buffers, as in the source: a buffer of      *)
(* length n is a function on 0..n-1 and every access goes through the      *)
(* index expression the code uses (i * K + k, k * N + j, i * N + j).       *)
(* Entries are integers: every value the model computes is exactly         *)
(* representable in a float, so float addition is exact and associative    *)
(* on them.                                                                *)
(*                                                                         *)
(* The tile and block edges are compile-time constants of the source (64   *)
(* on the CPU, 32 and 16 on the GPU, where a block has edge * edge         *)
(* threads).  The kernels use them only as a stride and a block shape;     *)
(* the model instantiates each of them to 2, and the dimensions run up to  *)
(* MaxM, MaxN, MaxK so that full tiles, partial tiles and several tiles    *)
(* per dimension all occur.                                                *)
(***************************************************************************)
EXTENDS Integers, Sequences, FiniteSets, TLC

\* Bounds of the model.
MaxM == 3
MaxN == 3
MaxK == 3
MaxC0 == 1
\* gemm_cpu_o3: the worker threads of the OpenMP team and the dimensions of its calls.
MaxThreads == 2
OmpMaxM == 1
OmpMaxN == 2
OmpMaxK == 3
\* The harness programs: argc of the command line.
MaxArgc == 5

\* The source's tile and block edges, instantiated small (see the header).
CPU_TILE_SIZE == 2
BLOCK_SIZE == 2
TILE_SIZE == 2
TILE_SIZE_BEST == 2

\* #define NUM_RUNS of the CPU harness and of the GPU harness; EXIT_FAILURE; the
\* exit status of a process killed by SIGSEGV (128 + 11).
CPU_NUM_RUNS == 2
NUM_RUNS == 10
EXIT_FAILURE == 1
SEGV_STATUS == 139

VARIABLES
    variant,    \* the kernel the call runs
    pc,         \* "ready": buffers set up, kernel not called; "returned": call over
    M, N, K,    \* the dimensions passed to the kernel
    A, B,       \* the input buffers, M*K and K*N floats
    C0,         \* what C held when the kernel was called
    C,          \* the output buffer, M*N floats
    visits,     \* the (i, k, j) of every multiply-add a CPU kernel has executed, in order
    oob         \* an access outside a buffer has happened

VARIABLES
    nthreads,   \* gemm_cpu_o3: the number of worker threads of the team
    claimed,    \* the (jj, kk) iterations of the collapsed loop handed to a thread so far
    task,       \* per thread: the (jj, kk) iteration it runs, or NoTask
    todo,       \* per thread: the multiply-adds (i, k, j) of its iteration still to run
    tmp         \* per thread: <<the sum it has computed and not yet stored>>, or Empty

VARIABLES
    bstate,     \* GPU: per block <<by, bx>> of the grid: "pending", "running", "retired"
    cur,        \* the block whose threads are running, or NoBlock
    tpc,        \* per thread <<ty, tx>> of the running block: where it is in the kernel
    tm,         \* per thread: its tile loop counter m
    Cvalue,     \* per thread: its accumulator (Cvalue, or sum in gemm_gpu_o1_kernel)
    shared_A,   \* the running block's __shared__ tiles, per slot <<ty, tx>>
    shared_B,
    tagA,       \* per slot: the tile iteration m whose load stored it last, -1 if none
    tagB,
    writes      \* <<index, block, thread>> of every store to C a thread of the grid made

kernelVars == <<variant, pc, M, N, K, A, B, C0, C, visits, oob>>
ompVars == <<nthreads, claimed, task, todo, tmp>>
VARIABLES
    prog,       \* harness: which main runs, "cpu" (part_000) or "gpu" (gemm_gpu.cu)
    argc,       \* main's argc: argv[0] is the program name, argv[argc] is NULL
    stage,      \* "entry", "args", "body" (the macros' statements), "exited"
    hpc,        \* in "body": the index of the next statement of MainBody
    exitCode,   \* <<the process's exit status>>, NotExited while it runs
    argsRead,   \* the indexes i of the argv[i] that atoi has been given
    lastErr,    \* the CUDA runtime's last error: "cudaSuccess" or what failed
    detected,   \* the device failures the program has tested for and seen
    reported,   \* the messages the program has printed
    ran         \* the names of the kernels called so far

blockVars == <<cur, tpc, tm, Cvalue, shared_A, shared_B, tagA, tagB>>
gpuVars == <<bstate, blockVars, writes>>
mainVars ==
    <<prog, argc, stage, hpc, exitCode, argsRead, lastErr, detected, reported, ran>>

vars == <<kernelVars, ompVars, gpuVars, mainVars>>

----------------------------------------------------------------------------
(* Buffers and inputs                                                      *)

\* What a read outside a buffer yields: no entry of any input equals it.
Poison == 1000

Min(a, b) == IF a < b THEN a ELSE b

InRange(buf, idx) == idx \in DOMAIN buf

\* buf[idx]
Load(buf, idx) == IF InRange(buf, idx) THEN buf[idx] ELSE Poison

\* buf[idx] = v
Store(buf, idx, v) == IF InRange(buf, idx) THEN [buf EXCEPT ![idx] = v] ELSE buf

Dims == (0 .. MaxM) \X (0 .. MaxN) \X (0 .. MaxK)

\* Input families: entry p of a buffer is seed + p, so that distinct cells of
\* one buffer hold distinct values.  Seeds 1 and 5 on M = N = K = 2 give
\* A = [[1,2],[3,4]], B = [[5,6],[7,8]].
SeedsA == {1, -1}
SeedsB == {5, 2}

Buffer(len, seed) == [p \in 0 .. len - 1 |-> seed + p]

\* The caller's C: all zero (c0 = 0) or c0 * (p + 1).
InitialC(len, c0) == [p \in 0 .. len - 1 |-> c0 * (p + 1)]

Zeroed(buf) == \A p \in DOMAIN buf : buf[p] = 0

\* The mathematical contract: sum over k of A[i,k] * B[k,j].
RECURSIVE DotUpTo(_, _, _, _, _, _, _)
DotUpTo(a, b, n, kd, i, j, k) ==
    IF k = 0 THEN 0
    ELSE DotUpTo(a, b, n, kd, i, j, k - 1) + a[i * kd + (k - 1)] * b[(k - 1) * n + j]

Dot(i, j) == DotUpTo(A, B, N, K, i, j, K)

Cells == {<<i, j>> \in (0 .. M - 1) \X (0 .. N - 1) : TRUE}

\* C = C0 + A * B on every cell
Accumulated == \A c \in Cells : C[c[1] * N + c[2]] = C0[c[1] * N + c[2]] + Dot(c[1], c[2])

\* C = A * B on every cell
Assigned == \A c \in Cells : C[c[1] * N + c[2]] = Dot(c[1], c[2])

----------------------------------------------------------------------------
(* CPU kernels, src/unnamed/part_000                                       *)

\* for (x = lo; x < hi; x += step) st = Body(st, x)
\* (st.oob \in BOOLEAN is true of every call state: it is there so that the state
\* is evaluated before the next iteration, not at the end of the loop nest.)
RECURSIVE ForLoop(_, _, _, _, _)
ForLoop(lo, hi, step, Body(_, _), st) ==
    IF lo < hi /\ st.oob \in BOOLEAN
    THEN ForLoop(lo + step, hi, step, Body, Body(st, lo))
    ELSE st

\* MulAdd with = in the place of +=
MulAssign(a, b, st, n, kd, i, k, j) ==
    [C      |-> Store(st.C, i * n + j, Load(a, i * kd + k) * Load(b, k * n + j)),
     oob    |-> st.oob,
     visits |-> Append(st.visits, <<i, k, j>>)]

\* The state a kernel call works on.
CallState(c) == [C |-> c, oob |-> FALSE, visits |-> <<>>]

\* C[i * N + j] += a_ik * B[k * N + j], with a_ik = A[i * K + k]
MulAdd(a, b, st, n, kd, i, k, j) ==
    LET ci == i * n + j
        ai == i * kd + k
        bi == k * n + j
    IN  [C      |-> Store(st.C, ci, Load(st.C, ci) + Load(a, ai) * Load(b, bi)),
         oob    |-> st.oob \/ ~InRange(st.C, ci) \/ ~InRange(a, ai) \/ ~InRange(b, bi),
         visits |-> Append(st.visits, <<i, k, j>>)]

gemm_cpu_o0(a, b, c, m, n, kd) ==
    ForLoop(0, n, 1, LAMBDA s1, j :
      ForLoop(0, m, 1, LAMBDA s2, i :
        ForLoop(0, kd, 1, LAMBDA s3, k : MulAdd(a, b, s3, n, kd, i, k, j), s2), s1),
      CallState(c))

gemm_cpu_o1(a, b, c, m, n, kd) ==
    ForLoop(0, m, 1, LAMBDA s1, i :
      ForLoop(0, kd, 1, LAMBDA s2, k :
        ForLoop(0, n, 1, LAMBDA s3, j : MulAdd(a, b, s3, n, kd, i, k, j), s2), s1),
      CallState(c))

\* TileEnd done wrong: the tile's end is not clipped at the matrix edge.
TileEndUnclipped(start, dim) == start + CPU_TILE_SIZE

\* std::min(kk + TILE_SIZE, K), std::min(jj + TILE_SIZE, N)
TileEnd(start, dim) == Min(start + CPU_TILE_SIZE, dim)

\* The i, k, j loops of one (N-tile, K-tile) pair: the body of the two tile loops
\* of gemm_cpu_o2 and of gemm_cpu_o3.
TileBody(a, b, st, m, n, kd, jj, kk) ==
    ForLoop(0, m, 1, LAMBDA s3, i :
      LET minK == TileEnd(kk, kd)
          minN == TileEnd(jj, n)
      IN  ForLoop(kk, minK, 1, LAMBDA s4, k :
            ForLoop(jj, minN, 1, LAMBDA s5, j : MulAdd(a, b, s5, n, kd, i, k, j), s4), s3),
      st)

gemm_cpu_o2(a, b, c, m, n, kd) ==
    ForLoop(0, n, CPU_TILE_SIZE, LAMBDA s1, jj :
      ForLoop(0, kd, CPU_TILE_SIZE, LAMBDA s2, kk :
        TileBody(a, b, s2, m, n, kd, jj, kk), s1),
      CallState(c))

CpuVariants == {"gemm_cpu_o0", "gemm_cpu_o1", "gemm_cpu_o2"}

CpuResult(v) ==
    CASE v = "gemm_cpu_o0" -> gemm_cpu_o0(A, B, C, M, N, K)
      [] v = "gemm_cpu_o1" -> gemm_cpu_o1(A, B, C, M, N, K)
      [] v = "gemm_cpu_o2" -> gemm_cpu_o2(A, B, C, M, N, K)

\* The caller's buffers: A, B filled, C as the caller left it.
InitBuffers(seedsA, seedsB) ==
    /\ \E d \in Dims : M = d[1] /\ N = d[2] /\ K = d[3]
    /\ \E sa \in seedsA : A = Buffer(M * K, sa)
    /\ \E sb \in seedsB : B = Buffer(K * N, sb)
    /\ \E c0 \in 0 .. MaxC0 : C0 = InitialC(M * N, c0)
    /\ C = C0
    /\ visits = <<>>
    /\ oob = FALSE
    /\ pc = "ready"

NoTask == <<>>
Empty == <<>>

OmpIdle ==
    /\ nthreads = 0
    /\ claimed = {}
    /\ task = <<>>
    /\ todo = <<>>
    /\ tmp = <<>>

NoBlock == <<>>

\* No block is resident: no thread state, no shared memory.
NoBlockRunning ==
    /\ cur = NoBlock
    /\ tpc = <<>>
    /\ tm = <<>>
    /\ Cvalue = <<>>
    /\ shared_A = <<>>
    /\ shared_B = <<>>
    /\ tagA = <<>>
    /\ tagB = <<>>

GpuIdle ==
    /\ bstate = <<>>
    /\ NoBlockRunning
    /\ writes = {}

NotExited == <<>>

\* No harness program is running: a kernel is called on its own.
NoMain ==
    /\ prog = "none"
    /\ argc = 0
    /\ stage = "none"
    /\ hpc = 0
    /\ exitCode = NotExited
    /\ argsRead = {}
    /\ lastErr = "cudaSuccess"
    /\ detected = {}
    /\ reported = {}
    /\ ran = {}

InitCpu ==
    /\ InitBuffers(SeedsA, SeedsB)
    /\ variant \in CpuVariants
    /\ OmpIdle
    /\ GpuIdle
    /\ NoMain

\* name(A, B, C, M, N, K) for a sequential CPU kernel
CallCpu ==
    /\ pc = "ready"
    /\ variant \in CpuVariants
    /\ LET r == CpuResult(variant)
       IN  /\ C' = r.C
           /\ oob' = r.oob
           /\ visits' = r.visits
    /\ pc' = "returned"
    /\ UNCHANGED <<variant, M, N, K, A, B, C0>>
    /\ UNCHANGED <<ompVars, gpuVars>>
    /\ UNCHANGED mainVars

NextCpu == CallCpu

SpecCpu == InitCpu /\ [][NextCpu]_vars

----------------------------------------------------------------------------
(* gemm_cpu_o3: #pragma omp parallel for collapse(2) over the two tile loops *)
(*                                                                         *)
(* The collapsed loop has one iteration per (jj, kk); OpenMP hands each    *)
(* iteration to exactly one thread of the team, which threads get which is *)
(* up to the schedule.  An iteration runs TileBody.  Its statement         *)
(*     C[i * N + j] += A_ik * B[k * N + j]                                 *)
(* is a plain float read-modify-write, not an atomic: a thread reads the   *)
(* cell and computes the sum (ReadC), and stores it later (WriteC); steps  *)
(* of other threads may come in between.                                   *)

Threads == 1 .. nthreads

\* for (jj = 0; jj < N; jj += TILE_SIZE) for (kk = 0; kk < K; kk += TILE_SIZE)
Iterations ==
    {<<jj, kk>> \in (0 .. N - 1) \X (0 .. K - 1) :
        jj % CPU_TILE_SIZE = 0 /\ kk % CPU_TILE_SIZE = 0}

\* The multiply-adds of iteration it, in the order TileBody executes them.
Updates(it) == TileBody(A, B, CallState(C0), M, N, K, it[1], it[2]).visits

InitOmp ==
    /\ \E d \in (0 .. OmpMaxM) \X (0 .. OmpMaxN) \X (0 .. OmpMaxK) :
          M = d[1] /\ N = d[2] /\ K = d[3]
    /\ A = Buffer(M * K, 1)
    /\ B = Buffer(K * N, 5)
    /\ \E c0 \in 0 .. MaxC0 : C0 = InitialC(M * N, c0)
    /\ C = C0
    /\ visits = <<>>
    /\ oob = FALSE
    /\ pc = "ready"
    /\ variant = "gemm_cpu_o3"
    /\ GpuIdle
    /\ NoMain
    /\ nthreads \in 1 .. MaxThreads
    /\ claimed = {}
    /\ task = [t \in Threads |-> NoTask]
    /\ todo = [t \in Threads |-> <<>>]
    /\ tmp = [t \in Threads |-> Empty]

\* The team starts on the parallel loop.
OmpFork ==
    /\ pc = "ready"
    /\ variant = "gemm_cpu_o3"
    /\ pc' = "parallel"
    /\ UNCHANGED <<variant, M, N, K, A, B, C0, C, visits, oob>>
    /\ UNCHANGED <<ompVars, gpuVars>>
    /\ UNCHANGED mainVars

\* Thread t is handed an iteration nobody has run.
TakeIteration(t) ==
    /\ pc = "parallel"
    /\ task[t] = NoTask
    /\ \E it \in Iterations \ claimed :
          /\ claimed' = claimed \cup {it}
          /\ IF Updates(it) = <<>>
             THEN UNCHANGED <<task, todo>>
             ELSE /\ task' = [task EXCEPT ![t] = it]
                  /\ todo' = [todo EXCEPT ![t] = Updates(it)]
    /\ UNCHANGED <<nthreads, tmp>>
    /\ UNCHANGED <<kernelVars, gpuVars>>
    /\ UNCHANGED mainVars

\* Thread t evaluates C[i * N + j] + A_ik * B[k * N + j].
ReadC(t) ==
    /\ pc = "parallel"
    /\ task[t] # NoTask
    /\ tmp[t] = Empty
    /\ LET u == Head(todo[t])
           ci == u[1] * N + u[3]
           ai == u[1] * K + u[2]
           bi == u[2] * N + u[3]
       IN  /\ tmp' = [tmp EXCEPT ![t] = <<Load(C, ci) + Load(A, ai) * Load(B, bi)>>]
           /\ oob' = (oob \/ ~InRange(C, ci) \/ ~InRange(A, ai) \/ ~InRange(B, bi))
    /\ UNCHANGED <<variant, pc, M, N, K, A, B, C0, C, visits>>
    /\ UNCHANGED <<nthreads, claimed, task, todo>>
    /\ UNCHANGED gpuVars
    /\ UNCHANGED mainVars

\* Thread t stores the sum into C[i * N + j] and goes on to its next multiply-add;
\* after the last one its iteration is over.
WriteC(t) ==
    /\ pc = "parallel"
    /\ task[t] # NoTask
    /\ tmp[t] # Empty
    /\ LET u == Head(todo[t])
       IN  C' = Store(C, u[1] * N + u[3], tmp[t][1])
    /\ todo' = [todo EXCEPT ![t] = Tail(todo[t])]
    /\ task' = [task EXCEPT ![t] = IF Len(todo[t]) = 1 THEN NoTask ELSE task[t]]
    /\ tmp' = [tmp EXCEPT ![t] = Empty]
    /\ UNCHANGED <<variant, pc, M, N, K, A, B, C0, visits, oob>>
    /\ UNCHANGED <<nthreads, claimed>>
    /\ UNCHANGED gpuVars
    /\ UNCHANGED mainVars

\* The implicit barrier at the end of the parallel loop: every iteration has run.
OmpJoin ==
    /\ pc = "parallel"
    /\ claimed = Iterations
    /\ \A t \in Threads : task[t] = NoTask
    /\ pc' = "returned"
    /\ UNCHANGED <<variant, M, N, K, A, B, C0, C, visits, oob>>
    /\ UNCHANGED <<ompVars, gpuVars>>
    /\ UNCHANGED mainVars

NextOmp ==
    \/ OmpFork
    \/ \E t \in Threads : TakeIteration(t)
    \/ \E t \in Threads : ReadC(t)
    \/ \E t \in Threads : WriteC(t)
    \/ OmpJoin

SpecOmp == InitOmp /\ [][NextOmp]_vars

----------------------------------------------------------------------------
(* GPU kernels, src/gpu/gemm_gpu.cu                                        *)
(*                                                                         *)
(* A launch creates a grid of blocks <<by, bx>>, each of BlockEdge *       *)
(* BlockEdge threads <<ty, tx>> (threadIdx.y, threadIdx.x).  Threads of a  *)
(* block take their steps in any order and meet at __syncthreads().        *)
(* Blocks share no on-chip state: the only memory two blocks both touch is *)
(* A and B, which no kernel writes, and C, which gemm_gpu_o1..o3 only      *)
(* store to.  The model runs the blocks one at a time, in any order, and   *)
(* records in `writes` which thread stored to which index of C, so that    *)
(* two blocks storing to one cell show whatever the order.                 *)

GpuVariants ==
    {"gemm_gpu_o0", "gemm_gpu_o1", "gemm_gpu_o2", "gemm_gpu_o3", "gemm_cublas"}
GridVariants == {"gemm_gpu_o1", "gemm_gpu_o2", "gemm_gpu_o3"}
TiledVariants == {"gemm_gpu_o2", "gemm_gpu_o3"}

\* The edge of the launch's blockSize.
BlockEdge ==
    CASE variant = "gemm_gpu_o1" -> BLOCK_SIZE
      [] variant = "gemm_gpu_o2" -> TILE_SIZE
      [] variant = "gemm_gpu_o3" -> TILE_SIZE_BEST
      [] OTHER -> 1

\* GridDim done wrong: the division rounds down.
GridDimFloor(dim, edge) == dim \div edge

\* (N + BLOCK_SIZE - 1) / BLOCK_SIZE
GridDim(dim, edge) == (dim + edge - 1) \div edge

\* The launch's gridSize, as the set of its blocks <<blockIdx.y, blockIdx.x>>.
Grid ==
    IF variant = "gemm_gpu_o0" THEN {<<0, 0>>}
    ELSE (0 .. GridDim(M, BlockEdge) - 1) \X (0 .. GridDim(N, BlockEdge) - 1)

BlockThreads == (0 .. BlockEdge - 1) \X (0 .. BlockEdge - 1)

\* int row = blockIdx.y * TILE_SIZE + ty;  int col = blockIdx.x * TILE_SIZE + tx;
Row(t) == cur[1] * BlockEdge + t[1]
Col(t) == cur[2] * BlockEdge + t[2]

\* if (row < M && col < N)
InMatrix(row, col) == row < M /\ col < N

\* StagesA done wrong: the tile's column is not checked against K.
StagesARowOnly(row, kidx) == row < M

\* if (row < M && m * TILE_SIZE + tx < K)
StagesA(row, kidx) == row < M /\ kidx < K

\* if (col < N && m * TILE_SIZE + ty < K)
StagesB(col, kidx) == col < N /\ kidx < K

\* NumTiles done wrong: the division rounds down.
NumTilesFloor == K \div BlockEdge

\* m < (K + TILE_SIZE - 1) / TILE_SIZE
NumTiles == (K + BlockEdge - 1) \div BlockEdge

\* The loops of gemm_gpu_o0_kernel, run by its one thread.
gemm_gpu_o0_kernel(a, b, c, m, n, kd) ==
    ForLoop(0, m, 1, LAMBDA s1, i :
      ForLoop(0, n, 1, LAMBDA s2, j :
        ForLoop(0, kd, 1, LAMBDA s3, k : MulAdd(a, b, s3, n, kd, i, k, j), s2), s1),
      CallState(c))

\* gemm_gpu_o1_kernel: for (k = 0; k < K; k++) sum += A[row * K + k] * B[k * N + col]
RowTimesCol(row, col) ==
    ForLoop(0, K, 1, LAMBDA s, k :
      [sum |-> s.sum + Load(A, row * K + k) * Load(B, k * N + col),
       oob |-> s.oob \/ ~InRange(A, row * K + k) \/ ~InRange(B, k * N + col)],
      [sum |-> 0, oob |-> FALSE])

\* for (k = 0; k < TILE_SIZE; k++) Cvalue += shared_A[ty][k] * shared_B[k][tx]
TileProduct(t) ==
    ForLoop(0, BlockEdge, 1, LAMBDA s, k :
      [sum |-> s.sum + shared_A[<<t[1], k>>] * shared_B[<<k, t[2]>>], oob |-> FALSE],
      [sum |-> Cvalue[t], oob |-> FALSE]).sum

Max(a, b) == IF a > b THEN a ELSE b

RECURSIVE SgemmDot(_, _, _, _, _, _, _)
SgemmDot(a, lda, b, ldb, i, j, l) ==
    IF l = 0 THEN 0
    ELSE SgemmDot(a, lda, b, ldb, i, j, l - 1) + a[i + (l - 1) * lda] * b[(l - 1) + j * ldb]

\* cublasSgemm with CUBLAS_OP_N, CUBLAS_OP_N, as the cuBLAS documentation gives it:
\* column-major C(m x n) = alpha * A(m x k) * B(k x n) + beta * C, and no effect
\* (CUBLAS_STATUS_INVALID_VALUE) when a leading dimension is too small.
cublasSgemm(m, n, k, alpha, a, lda, b, ldb, beta, c, ldc) ==
    IF lda < Max(1, m) \/ ldb < Max(1, k) \/ ldc < Max(1, m) THEN c
    ELSE [p \in DOMAIN c |->
            LET i == p % ldc
                j == p \div ldc
            IN  IF i < m /\ j < n
                THEN alpha * SgemmDot(a, lda, b, ldb, i, j, k) + beta * c[p]
                ELSE c[p]]

\* alpha = 1.0f, beta = 0.0f;
\* cublasSgemm(handle, CUBLAS_OP_N, CUBLAS_OP_N, N, M, K, &alpha, B, N, A, K, &beta, C, N)
gemm_cublas(a, b, c, m, n, kd) == cublasSgemm(n, m, kd, 1, b, n, a, kd, 0, c, n)

InitGpu ==
    /\ InitBuffers({1}, {5})
    /\ variant \in GpuVariants
    /\ OmpIdle
    /\ GpuIdle
    /\ NoMain

\* kernel<<<gridSize, blockSize>>>(A, B, C, M, N, K).  A grid with no block (M = 0
\* or N = 0 in gemm_gpu_o1..o3) is a failed launch: no thread runs.
Launch ==
    /\ pc = "ready"
    /\ variant \in GpuVariants \ {"gemm_cublas"}
    /\ pc' = "launched"
    /\ bstate' = [b \in Grid |-> "pending"]
    /\ UNCHANGED <<variant, M, N, K, A, B, C0, C, visits, oob>>
    /\ UNCHANGED <<ompVars, blockVars, writes>>
    /\ UNCHANGED mainVars

\* Where thread t of block b starts: at the kernel's first statement; in the tiled kernels that
\* is the test of the tile loop, m = 0 < (K + TILE_SIZE - 1) / TILE_SIZE.
EntryPc(b, t) ==
    CASE variant = "gemm_gpu_o0" -> "body"
      [] variant = "gemm_gpu_o1" -> "entry"
      [] OTHER -> IF 0 < NumTiles THEN "load" ELSE "store"

\* Block b becomes resident: its threads start, its shared memory holds anything.
Dispatch(b) ==
    /\ pc = "launched"
    /\ cur = NoBlock
    /\ b \in DOMAIN bstate
    /\ bstate[b] = "pending"
    /\ cur' = b
    /\ bstate' = [bstate EXCEPT ![b] = "running"]
    /\ tpc' = [t \in BlockThreads |-> EntryPc(b, t)]
    /\ tm' = [t \in BlockThreads |-> 0]
    /\ Cvalue' = [t \in BlockThreads |-> 0]
    /\ shared_A' = [t \in BlockThreads |-> Poison]
    /\ shared_B' = [t \in BlockThreads |-> Poison]
    /\ tagA' = [t \in BlockThreads |-> -1]
    /\ tagB' = [t \in BlockThreads |-> -1]
    /\ UNCHANGED <<kernelVars, ompVars, writes>>
    /\ UNCHANGED mainVars

Running(t) == cur # NoBlock /\ t \in DOMAIN tpc

\* gemm_gpu_o0_kernel: if (threadIdx.x == 0 && blockIdx.x == 0) { the three loops }
O0Body(t) ==
    /\ Running(t)
    /\ tpc[t] = "body"
    /\ IF t[2] = 0 /\ cur[2] = 0
       THEN LET r == gemm_gpu_o0_kernel(A, B, C, M, N, K)
            IN  C' = r.C /\ oob' = (oob \/ r.oob)
       ELSE UNCHANGED <<C, oob>>
    /\ tpc' = [tpc EXCEPT ![t] = "done"]
    /\ UNCHANGED <<variant, pc, M, N, K, A, B, C0, visits>>
    /\ UNCHANGED <<ompVars, bstate, writes, cur, tm, Cvalue, shared_A, shared_B, tagA, tagB>>
    /\ UNCHANGED mainVars

\* gemm_gpu_o1_kernel: if (row < M && col < N) { sum = 0; the k loop
O1Sum(t) ==
    /\ Running(t)
    /\ tpc[t] = "entry"
    /\ IF InMatrix(Row(t), Col(t))
       THEN LET r == RowTimesCol(Row(t), Col(t))
            IN  /\ Cvalue' = [Cvalue EXCEPT ![t] = r.sum]
                /\ oob' = (oob \/ r.oob)
                /\ tpc' = [tpc EXCEPT ![t] = "store"]
       ELSE /\ tpc' = [tpc EXCEPT ![t] = "done"]
            /\ UNCHANGED <<Cvalue, oob>>
    /\ UNCHANGED <<variant, pc, M, N, K, A, B, C0, C, visits>>
    /\ UNCHANGED <<ompVars, bstate, writes, cur, tm, shared_A, shared_B, tagA, tagB>>
    /\ UNCHANGED mainVars

\* StoreValue with += in the place of =
StoreValueAdded(old, sum) == old + sum

\* C[row * N + col] = sum;  C[row * N + col] = Cvalue;  what the cell holds after
\* the statement, given what it held before
StoreValue(old, sum) == sum

\* gemm_gpu_o1_kernel: C[row * N + col] = sum; }
O1Store(t) ==
    /\ Running(t)
    /\ variant = "gemm_gpu_o1"
    /\ tpc[t] = "store"
    /\ LET ci == Row(t) * N + Col(t)
       IN  /\ C' = Store(C, ci, StoreValue(Load(C, ci), Cvalue[t]))
           /\ oob' = (oob \/ ~InRange(C, ci))
           /\ writes' = writes \cup {<<ci, cur, t>>}
    /\ tpc' = [tpc EXCEPT ![t] = "done"]
    /\ UNCHANGED <<variant, pc, M, N, K, A, B, C0, visits>>
    /\ UNCHANGED <<ompVars, bstate, cur, tm, Cvalue, shared_A, shared_B, tagA, tagB>>
    /\ UNCHANGED mainVars

\* gemm_gpu_o2_kernel, gemm_gpu_o3_kernel: thread t stages its element of the A
\* tile and of the B tile of iteration m, zero when it lies outside the matrix.
TiledLoad(t) ==
    /\ Running(t)
    /\ tpc[t] = "load"
    /\ LET e == BlockEdge
           ai == Row(t) * K + tm[t] * e + t[2]
           bi == (tm[t] * e + t[1]) * N + Col(t)
           la == StagesA(Row(t), tm[t] * e + t[2])
           lb == StagesB(Col(t), tm[t] * e + t[1])
       IN  /\ shared_A' = [shared_A EXCEPT ![t] = IF la THEN Load(A, ai) ELSE 0]
           /\ shared_B' = [shared_B EXCEPT ![t] = IF lb THEN Load(B, bi) ELSE 0]
           /\ oob' = (oob \/ (la /\ ~InRange(A, ai)) \/ (lb /\ ~InRange(B, bi)))
    /\ tagA' = [tagA EXCEPT ![t] = tm[t]]
    /\ tagB' = [tagB EXCEPT ![t] = tm[t]]
    /\ tpc' = [tpc EXCEPT ![t] = "sync1"]
    /\ UNCHANGED <<variant, pc, M, N, K, A, B, C0, C, visits>>
    /\ UNCHANGED <<ompVars, bstate, writes, cur, tm, Cvalue>>
    /\ UNCHANGED mainVars

\* BarrierOpen done wrong: the barrier lets a thread through as soon as it arrives.
BarrierOpenToFirst(at) == \E t \in BlockThreads : tpc[t] = at

\* __syncthreads() lets the threads go on when every thread of the block has arrived.
BarrierOpen(at) == \A t \in BlockThreads : tpc[t] = at

\* The __syncthreads() after the loads: the threads waiting at it go on to compute.
SyncAfterLoad ==
    /\ cur # NoBlock
    /\ variant \in TiledVariants
    /\ BarrierOpen("sync1")
    /\ tpc' = [t \in BlockThreads |-> IF tpc[t] = "sync1" THEN "compute" ELSE tpc[t]]
    /\ UNCHANGED <<kernelVars, ompVars, bstate, writes>>
    /\ UNCHANGED <<cur, tm, Cvalue, shared_A, shared_B, tagA, tagB>>
    /\ UNCHANGED mainVars

\* Thread t adds the product of its row of shared_A and its column of shared_B.
TiledCompute(t) ==
    /\ Running(t)
    /\ tpc[t] = "compute"
    /\ Cvalue' = [Cvalue EXCEPT ![t] = TileProduct(t)]
    /\ tpc' = [tpc EXCEPT ![t] = "sync2"]
    /\ UNCHANGED <<kernelVars, ompVars, bstate, writes>>
    /\ UNCHANGED <<cur, tm, shared_A, shared_B, tagA, tagB>>
    /\ UNCHANGED mainVars

\* The __syncthreads() after the compute loop: the threads waiting at it do m++ and
\* test the tile loop again.
SyncAfterCompute ==
    /\ cur # NoBlock
    /\ variant \in TiledVariants
    /\ BarrierOpen("sync2")
    /\ tm' = [t \in BlockThreads |-> IF tpc[t] = "sync2" THEN tm[t] + 1 ELSE tm[t]]
    /\ tpc' = [t \in BlockThreads |->
                 IF tpc[t] = "sync2"
                 THEN (IF tm[t] + 1 < NumTiles THEN "load" ELSE "store")
                 ELSE tpc[t]]
    /\ UNCHANGED <<kernelVars, ompVars, bstate, writes>>
    /\ UNCHANGED <<cur, Cvalue, shared_A, shared_B, tagA, tagB>>
    /\ UNCHANGED mainVars

\* if (row < M && col < N) C[row * N + col] = Cvalue;
TiledStore(t) ==
    /\ Running(t)
    /\ variant \in TiledVariants
    /\ tpc[t] = "store"
    /\ IF InMatrix(Row(t), Col(t))
       THEN LET ci == Row(t) * N + Col(t)
            IN  /\ C' = Store(C, ci, StoreValue(Load(C, ci), Cvalue[t]))
                /\ oob' = (oob \/ ~InRange(C, ci))
                /\ writes' = writes \cup {<<ci, cur, t>>}
       ELSE UNCHANGED <<C, oob, writes>>
    /\ tpc' = [tpc EXCEPT ![t] = "done"]
    /\ UNCHANGED <<variant, pc, M, N, K, A, B, C0, visits>>
    /\ UNCHANGED <<ompVars, bstate, cur, tm, Cvalue, shared_A, shared_B, tagA, tagB>>
    /\ UNCHANGED mainVars

\* Every thread of the running block has returned: the block is over.
Retire ==
    /\ cur # NoBlock
    /\ \A t \in BlockThreads : tpc[t] = "done"
    /\ bstate' = [bstate EXCEPT ![cur] = "retired"]
    /\ cur' = NoBlock
    /\ tpc' = <<>>
    /\ tm' = <<>>
    /\ Cvalue' = <<>>
    /\ shared_A' = <<>>
    /\ shared_B' = <<>>
    /\ tagA' = <<>>
    /\ tagB' = <<>>
    /\ UNCHANGED <<kernelVars, ompVars, writes>>
    /\ UNCHANGED mainVars

\* The host waits for the grid (the cudaMemcpy that follows the launch).
Finish ==
    /\ pc = "launched"
    /\ \A b \in DOMAIN bstate : bstate[b] = "retired"
    /\ pc' = "returned"
    /\ UNCHANGED <<variant, M, N, K, A, B, C0, C, visits, oob>>
    /\ UNCHANGED <<ompVars, gpuVars>>
    /\ UNCHANGED mainVars

CallCublas ==
    /\ pc = "ready"
    /\ variant = "gemm_cublas"
    /\ C' = gemm_cublas(A, B, C, M, N, K)
    /\ pc' = "returned"
    /\ UNCHANGED <<variant, M, N, K, A, B, C0, visits, oob>>
    /\ UNCHANGED <<ompVars, gpuVars>>
    /\ UNCHANGED mainVars

NextGpu ==
    \/ Launch
    \/ \E b \in DOMAIN bstate : Dispatch(b)
    \/ \E t \in DOMAIN tpc : O0Body(t)
    \/ \E t \in DOMAIN tpc : O1Sum(t)
    \/ \E t \in DOMAIN tpc : O1Store(t)
    \/ \E t \in DOMAIN tpc : TiledLoad(t)
    \/ SyncAfterLoad
    \/ \E t \in DOMAIN tpc : TiledCompute(t)
    \/ SyncAfterCompute
    \/ \E t \in DOMAIN tpc : TiledStore(t)
    \/ Retire
    \/ Finish
    \/ CallCublas

SpecGpu == InitGpu /\ [][NextGpu]_vars

----------------------------------------------------------------------------
(* C1                                                                      *)

Triples == (0 .. M - 1) \X (0 .. K - 1) \X (0 .. N - 1)

Occurrences(seq, x) == Cardinality({n \in 1 .. Len(seq) : seq[n] = x})

\* C1: on a pre-zeroed C, gemm_cpu_o1 and gemm_cpu_o2 end with the C the baseline
\* gemm_cpu_o0 ends with, which is sum over k of A[i,k] * B[k,j] on every cell,
\* without an access outside a buffer; for every M, N, K >= 0, partial tiles
\* included.  In gemm_cpu_o2 every triple (i, k, j) contributes exactly once.
C1_SequentialVariantsMatchBaseline ==
    (pc = "returned" /\ variant \in {"gemm_cpu_o1", "gemm_cpu_o2"} /\ Zeroed(C0)) =>
        /\ C = gemm_cpu_o0(A, B, C0, M, N, K).C
        /\ Assigned
        /\ ~oob
        /\ variant = "gemm_cpu_o2" =>
              /\ \A t \in Triples : Occurrences(visits, t) = 1
              /\ Len(visits) = M * K * N

\* gemm_cpu_o2 has returned from a call whose last N-tile and last K-tile are
\* partial, and C holds the products.
C1_Witness ==
    /\ pc = "returned" /\ variant = "gemm_cpu_o2" /\ Zeroed(C0)
    /\ M = 2 /\ N = 3 /\ K = 3
    /\ N % CPU_TILE_SIZE # 0 /\ K % CPU_TILE_SIZE # 0
    /\ C[5] = Dot(1, 2) /\ C[5] # 0

----------------------------------------------------------------------------
(* C2                                                                      *)

\* C2: gemm_cpu_o3 on a pre-zeroed C ends with the baseline's C, sum over k of
\* A[i,k] * B[k,j] on every cell, for every number of worker threads and every
\* interleaving of its (N-tile, K-tile) iterations, several K-tiles included.
C2_ParallelMatchesBaseline ==
    (pc = "returned" /\ variant = "gemm_cpu_o3" /\ Zeroed(C0)) =>
        /\ C = gemm_cpu_o0(A, B, C0, M, N, K).C
        /\ Assigned

----------------------------------------------------------------------------
(* C3                                                                      *)

\* C3: for M, N, K >= 1, blocks that overhang the matrix included, each of
\* gemm_gpu_o0..o3 called on a pre-zeroed C ends, once the grid has finished, with
\* C[i,j] = sum over k of A[i,k] * B[k,j] on every cell, and has made no access
\* outside a buffer; A = [[1,2],[3,4]], B = [[5,6],[7,8]] gives [[19,22],[43,50]].
C3_GpuVariantsComputeProduct ==
    (/\ pc = "returned"
     /\ variant \in {"gemm_gpu_o0", "gemm_gpu_o1", "gemm_gpu_o2", "gemm_gpu_o3"}
     /\ M >= 1 /\ N >= 1 /\ K >= 1
     /\ Zeroed(C0)) =>
        /\ Assigned
        /\ ~oob
        /\ (A = <<1, 2, 3, 4>> /\ B = <<5, 6, 7, 8>> /\ M = 2 /\ N = 2) =>
               C = <<19, 22, 43, 50>>

\* gemm_gpu_o2 has finished on a 3 x 3 x 3 problem: two tile iterations, the second
\* partial, and a 2 x 2 grid whose edge blocks overhang the matrix.
C3_Witness ==
    /\ pc = "returned" /\ variant = "gemm_gpu_o2" /\ Zeroed(C0)
    /\ M = 3 /\ N = 3 /\ K = 3
    /\ Cardinality(DOMAIN bstate) = 4
    /\ C[8] = Dot(2, 2) /\ C[8] # 0

----------------------------------------------------------------------------
(* C8                                                                      *)

TiledBlockRunning == variant \in TiledVariants /\ cur # NoBlock

\* C8: in gemm_gpu_o2_kernel and gemm_gpu_o3_kernel, in every block and tile
\* iteration and under every interleaving of the block's threads: (1) while a thread
\* is in the compute phase of iteration m, every slot of shared_A and shared_B holds
\* what was stored for iteration m; (2) no slot holds data of a later iteration than
\* the one a thread has still to read (it is loading, waiting to compute, or
\* computing); (3) every thread of the block, those outside the matrix included,
\* comes to both barriers of every iteration: while a thread waits at a barrier,
\* every other thread of its block is in the same iteration, at that barrier or on
\* its way to it.
C8_BarriersSeparatePhases ==
    TiledBlockRunning =>
        \A t \in BlockThreads :
            /\ tpc[t] = "compute" =>
                  \A s \in BlockThreads : tagA[s] = tm[t] /\ tagB[s] = tm[t]
            /\ tpc[t] \in {"load", "sync1", "compute"} =>
                  \A s \in BlockThreads : tagA[s] <= tm[t] /\ tagB[s] <= tm[t]
            /\ tpc[t] = "sync1" =>
                  \A u \in BlockThreads : tm[u] = tm[t] /\ tpc[u] \in {"load", "sync1"}
            /\ tpc[t] = "sync2" =>
                  \A u \in BlockThreads : tm[u] = tm[t] /\ tpc[u] \in {"compute", "sync2"}

\* In the second tile iteration a thread outside the matrix waits at the second
\* barrier while a thread of its block is still computing.
C8_Witness ==
    /\ TiledBlockRunning
    /\ \E t, u \in BlockThreads :
          /\ tpc[t] = "compute" /\ tm[t] = 1
          /\ tpc[u] = "sync2" /\ ~InMatrix(Row(u), Col(u))

----------------------------------------------------------------------------
(* C9                                                                      *)

\* What thread t must have staged for tile iteration m.
StagedA(t, m) ==
    LET kidx == m * BlockEdge + t[2]
    IN  IF Row(t) < M /\ kidx < K THEN A[Row(t) * K + kidx] ELSE 0

StagedB(t, m) ==
    LET kidx == m * BlockEdge + t[1]
    IN  IF Col(t) < N /\ kidx < K THEN B[kidx * N + Col(t)] ELSE 0

\* C9: in gemm_gpu_o2_kernel and gemm_gpu_o3_kernel, once thread (ty, tx) has done
\* the loads of tile iteration m, and until the iteration is over, shared_A[ty][tx]
\* is A[row, m*T + tx] when row < M and m*T + tx < K and 0 otherwise, and
\* shared_B[ty][tx] is B[m*T + ty, col] when col < N and m*T + ty < K and 0
\* otherwise; no thread reads A or B outside the buffer.
C9_StagedTilesZeroFilled ==
    TiledBlockRunning =>
        /\ ~oob
        /\ \A t \in BlockThreads :
              tpc[t] \in {"sync1", "compute", "sync2"} =>
                  /\ shared_A[t] = StagedA(t, tm[t])
                  /\ shared_B[t] = StagedB(t, tm[t])

\* After the loads of the second, partial tile iteration of a block that overhangs
\* the matrix: one thread has staged an entry of A, another, whose tile column lies
\* past K, a zero.
C9_Witness ==
    /\ TiledBlockRunning
    /\ K = 3 /\ M = 3
    /\ \E t, u \in BlockThreads :
          /\ tpc[t] = "sync1" /\ tm[t] = 1
          /\ Row(t) < M /\ tm[t] * BlockEdge + t[2] < K /\ shared_A[t] = A[Row(t) * K + 2]
          /\ tpc[u] = "sync1" /\ tm[u] = 1
          /\ Row(u) < M /\ tm[u] * BlockEdge + u[2] >= K /\ shared_A[u] = 0

----------------------------------------------------------------------------
(* C10                                                                     *)

WritesTo(p) == {w \in writes : w[1] = p}

\* C10: in gemm_gpu_o1, gemm_gpu_o2 and gemm_gpu_o3 no thread stores to C outside
\* [0, M*N), no cell is stored to by two threads (so never by two blocks), the
\* thread that stores to cell (i, j) is the one whose row is i and column is j, and
\* when the grid has finished every cell has been stored to exactly once.
C10_GridCoversOutputExactly ==
    variant \in GridVariants =>
        /\ \A w \in writes : w[1] \in 0 .. M * N - 1
        /\ \A p \in 0 .. M * N - 1 : Cardinality(WritesTo(p)) <= 1
        /\ \A w \in writes :
              w[1] = (w[2][1] * BlockEdge + w[3][1]) * N + (w[2][2] * BlockEdge + w[3][2])
        /\ pc = "returned" =>
              \A p \in 0 .. M * N - 1 : Cardinality(WritesTo(p)) = 1

\* A 2 x 2 grid whose edge blocks overhang a 3 x 3 matrix has finished: nine
\* stores, by threads of four blocks.
C10_Witness ==
    /\ variant = "gemm_gpu_o3" /\ pc = "returned"
    /\ M = 3 /\ N = 3
    /\ Cardinality(writes) = 9
    /\ Cardinality({w[2] : w \in writes}) = 4
----------------------------------------------------------------------------
(* Every kernel, called on its own: the sequential CPU variants, gemm_cpu_o3
   and the GPU variants.  The calls of gemm_cpu_o3 kept here are those of a
   team of one thread and those with a zero dimension; its calls by several
   threads on non-empty matrices are SpecOmp's.                             *)

Degenerate == M = 0 \/ N = 0 \/ K = 0

InitKernels ==
    \/ InitCpu
    \/ InitOmp /\ (nthreads = 1 \/ Degenerate)
    \/ InitGpu

NextKernels ==
    \/ NextCpu
    \/ NextOmp
    \/ NextGpu

SpecKernels == InitKernels /\ [][NextKernels]_vars

----------------------------------------------------------------------------
(* C4                                                                      *)

Accumulating == CpuVariants \cup {"gemm_gpu_o0"}

\* C4, as the specification states it: every variant accumulates, so that a call
\* on a C holding C0 ends with C = C0 + A * B on every cell.
C4_EveryVariantAccumulates ==
    pc = "returned" => Accumulated

\* C4, amended: gemm_cpu_o0, gemm_cpu_o1, gemm_cpu_o2 and gemm_gpu_o0 accumulate,
\* C = C0 + A * B on every cell; gemm_gpu_o1, gemm_gpu_o2 and gemm_gpu_o3 assign,
\* C = A * B on every cell whatever C held, and so does gemm_cublas when
\* M, N, K >= 1.  None of them accesses a buffer outside its bounds.
C4_AccumulateOrAssign ==
    pc = "returned" =>
        /\ variant \in Accumulating => Accumulated /\ ~oob
        /\ variant \in GridVariants => Assigned /\ ~oob
        /\ (variant = "gemm_cublas" /\ M >= 1 /\ N >= 1 /\ K >= 1) => Assigned

\* gemm_gpu_o2 has returned from a call on a C that was not zero, with partial
\* tiles, and C holds A * B, not C0 + A * B.
C4_Witness ==
    /\ pc = "returned"
    /\ variant = "gemm_gpu_o2"
    /\ M = 3 /\ N = 3 /\ K = 3
    /\ \A p \in DOMAIN C0 : C0[p] # 0
    /\ Assigned
    /\ ~Accumulated

----------------------------------------------------------------------------
(* C5                                                                      *)

NoOpVariants == CpuVariants \cup {"gemm_cpu_o3", "gemm_gpu_o0"}

\* C5, as the specification states it: for every variant a call with M = 0 or
\* N = 0 or K = 0 leaves in every cell of C the value it held before the call,
\* whatever that value was.
C5_ZeroDimensionIsNoOp ==
    (pc = "returned" /\ Degenerate) => C = C0

\* C5, amended: a call with M = 0 or N = 0 or K = 0 accesses no buffer outside
\* its bounds; it leaves C as it was for gemm_cpu_o0 .. gemm_cpu_o3 and
\* gemm_gpu_o0; for gemm_gpu_o1 .. gemm_gpu_o3 it writes nothing when M = 0 or
\* N = 0, and when only K = 0 it stores 0 to every cell of C, once, so that C is
\* left as it was only where it held 0.
C5_ZeroDimensionCalls ==
    (pc = "returned" /\ Degenerate /\ variant # "gemm_cublas") =>
        /\ ~oob
        /\ variant \in NoOpVariants => C = C0
        /\ (variant \in GridVariants /\ (M = 0 \/ N = 0)) => C = C0 /\ writes = {}
        /\ (variant \in GridVariants /\ M >= 1 /\ N >= 1) =>
              /\ \A p \in DOMAIN C : C[p] = 0
              /\ {w[1] : w \in writes} = DOMAIN C

\* gemm_gpu_o1 has returned from a call with K = 0 on a 2 x 3 C that held no 0,
\* and C is all 0.
C5_Witness ==
    /\ pc = "returned"
    /\ variant = "gemm_gpu_o1"
    /\ M = 2 /\ N = 3 /\ K = 0
    /\ \A p \in DOMAIN C0 : C0[p] # 0
    /\ \A p \in DOMAIN C : C[p] = 0

----------------------------------------------------------------------------
(* The harness programs: main of src/unnamed/part_000 ("cpu") and main of
   src/gpu/gemm_gpu.cu ("gpu").  The body of main is the sequence of
   statements its CHECK and TIME macros expand to, loops unrolled; a statement
   is kept when it calls the CUDA runtime, calls a kernel, or compares with
   the reference.  A call of the CUDA runtime and a kernel launch succeed or
   fail, whichever the device decides.                                      *)

Stmt(kind, what, name) == [kind |-> kind, what |-> what, name |-> name]

RECURSIVE Repeat(_, _)
Repeat(body, n) == IF n = 0 THEN <<>> ELSE body \o Repeat(body, n - 1)

\* #define CHECK(name) of gemm_gpu.cu
GpuCheck(name) ==
    << Stmt("CUDA_CHECK", "alloc", name),
       Stmt("CUDA_CHECK", "alloc", name),
       Stmt("CUDA_CHECK", "alloc", name),
       Stmt("CUDA_CHECK", "copy", name),
       Stmt("CUDA_CHECK", "copy", name),
       Stmt("CUDA_CHECK", "copy", name),
       Stmt("kernel", "launch", name),
       Stmt("cudaGetLastError", "query", name),
       Stmt("CUDA_CHECK", "copy", name),
       Stmt("checkRef", "compare", name) >>

\* #define TIME(name) of gemm_gpu.cu
GpuTime(name) ==
    << Stmt("CUDA_CHECK", "alloc", name),
       Stmt("CUDA_CHECK", "alloc", name),
       Stmt("CUDA_CHECK", "alloc", name),
       Stmt("CUDA_CHECK", "copy", name),
       Stmt("CUDA_CHECK", "copy", name),
       Stmt("unchecked", "event", name),
       Stmt("unchecked", "event", name) >>
    \o Repeat(<< Stmt("CUDA_CHECK", "copy", name),
                 Stmt("kernel", "launch", name) >>, 2)
    \o << Stmt("cudaGetLastError", "query", name) >>
    \o Repeat(<< Stmt("CUDA_CHECK", "copy", name),
                 Stmt("unchecked", "sync", name),
                 Stmt("unchecked", "event", name),
                 Stmt("kernel", "launch", name),
                 Stmt("unchecked", "event", name),
                 Stmt("unchecked", "event", name),
                 Stmt("unchecked", "event", name) >>, NUM_RUNS)
    \o << Stmt("unchecked", "copy", name),
          Stmt("unchecked", "free", name),
          Stmt("unchecked", "free", name),
          Stmt("unchecked", "free", name) >>

\* #define CHECK(name) of part_000
CpuCheck(name) ==
    << Stmt("host", "initialize", name),
       Stmt("host", "kernel", name),
       Stmt("checkRef", "compare", name) >>

\* #define TIME(name) of part_000
CpuTime(name) ==
    Repeat(<< Stmt("host", "kernel", name) >>, 1)
    \o Repeat(<< Stmt("host", "initialize", name),
                 Stmt("host", "kernel", name) >>, CPU_NUM_RUNS)

\* main of gemm_gpu.cu after its arguments: CHECK x 5, TIME x 5, cudaFreeHost x 3
GpuMainBody ==
    GpuCheck("gemm_gpu_o0") \o GpuCheck("gemm_gpu_o1") \o GpuCheck("gemm_gpu_o2")
    \o GpuCheck("gemm_gpu_o3") \o GpuCheck("gemm_cublas")
    \o GpuTime("gemm_gpu_o0") \o GpuTime("gemm_gpu_o1") \o GpuTime("gemm_gpu_o2")
    \o GpuTime("gemm_gpu_o3") \o GpuTime("gemm_cublas")
    \o << Stmt("unchecked", "free", "main"),
          Stmt("unchecked", "free", "main"),
          Stmt("unchecked", "free", "main") >>

\* main of part_000 after its arguments: CHECK x 4, TIME(gemm_cpu_o3)
CpuMainBody ==
    CpuCheck("gemm_cpu_o0") \o CpuCheck("gemm_cpu_o1") \o CpuCheck("gemm_cpu_o2")
    \o CpuCheck("gemm_cpu_o3") \o CpuTime("gemm_cpu_o3")

MainBody == IF prog = "gpu" THEN GpuMainBody ELSE CpuMainBody

AtStmt == stage = "body" /\ hpc \in 1 .. Len(MainBody)
Cur == MainBody[hpc]

\* No kernel machine is running: the harness is looked at on its own.
NoKernel ==
    /\ variant = "none"
    /\ pc = "none"
    /\ M = 0 /\ N = 0 /\ K = 0
    /\ A = <<>> /\ B = <<>> /\ C0 = <<>> /\ C = <<>>
    /\ visits = <<>>
    /\ oob = FALSE
    /\ nthreads = 0
    /\ OmpIdle
    /\ GpuIdle

InitMain ==
    /\ prog \in {"cpu", "gpu"}
    /\ argc \in 1 .. MaxArgc
    /\ stage = "entry"
    /\ hpc = 0
    /\ exitCode = NotExited
    /\ argsRead = {}
    /\ lastErr = "cudaSuccess"
    /\ detected = {}
    /\ reported = {}
    /\ ran = {}
    /\ NoKernel

\* exit(code), or return code from main
Exit(code) ==
    /\ stage' = "exited"
    /\ exitCode' = <<code>>

\* if (argc < 3) { std::cout << "Usage: mp1 <M> <N> <K>" << std::endl; return 1; }
ArgcGuard ==
    /\ stage = "entry"
    /\ IF argc < 3
       THEN /\ reported' = reported \cup {"Usage"}
            /\ Exit(1)
       ELSE /\ stage' = "args"
            /\ UNCHANGED <<reported, exitCode>>
    /\ UNCHANGED <<prog, argc, hpc, argsRead, lastErr, detected, ran>>
    /\ UNCHANGED <<kernelVars, ompVars, gpuVars>>

\* M = atoi(argv[1]); N = atoi(argv[2]); K = atoi(argv[3]);
\* argv[argc] is a null pointer, and atoi of a null pointer is undefined: the
\* process is killed, or atoi returns some int and main goes on.
ParseArgs ==
    /\ stage = "args"
    /\ argsRead' = {1, 2, 3}
    /\ \/ /\ stage' = "body"
          /\ hpc' = 1
          /\ UNCHANGED exitCode
       \/ /\ argc <= 3
          /\ Exit(SEGV_STATUS)
          /\ UNCHANGED hpc
    /\ UNCHANGED <<prog, argc, lastErr, detected, reported, ran>>
    /\ UNCHANGED <<kernelVars, ompVars, gpuVars>>

\* CUDA_CHECK(func): status = (func); if (status != cudaSuccess) { printf(
\* "CUDA API failed ..."); exit(EXIT_FAILURE); }
CudaCheck ==
    /\ AtStmt
    /\ Cur.kind = "CUDA_CHECK"
    /\ \E status \in {"cudaSuccess", Cur.what} :
          IF status # "cudaSuccess"
          THEN /\ lastErr' = status
               /\ detected' = detected \cup {status}
               /\ reported' = reported \cup {"CUDA API failed"}
               /\ Exit(EXIT_FAILURE)
               /\ UNCHANGED hpc
          ELSE /\ hpc' = hpc + 1
               /\ UNCHANGED <<lastErr, detected, reported, stage, exitCode>>
    /\ UNCHANGED <<prog, argc, argsRead, ran>>
    /\ UNCHANGED <<kernelVars, ompVars, gpuVars>>

\* A call of the CUDA runtime whose status the program does not look at.
Unchecked ==
    /\ AtStmt
    /\ Cur.kind = "unchecked"
    /\ \E status \in {"cudaSuccess", Cur.what} :
          lastErr' = IF status # "cudaSuccess" THEN status ELSE lastErr
    /\ hpc' = hpc + 1
    /\ UNCHANGED <<prog, argc, stage, exitCode, argsRead, detected, reported, ran>>
    /\ UNCHANGED <<kernelVars, ompVars, gpuVars>>

\* name(d_A, d_B, d_C, M, N, K): the launch succeeds, or fails and leaves its
\* error in the runtime's last error.
KernelLaunch ==
    /\ AtStmt
    /\ Cur.kind = "kernel"
    /\ \E status \in {"cudaSuccess", Cur.what} :
          lastErr' = IF status # "cudaSuccess" THEN status ELSE lastErr
    /\ ran' = ran \cup {Cur.name}
    /\ hpc' = hpc + 1
    /\ UNCHANGED <<prog, argc, stage, exitCode, argsRead, detected, reported>>
    /\ UNCHANGED <<kernelVars, ompVars, gpuVars>>

\* err = cudaGetLastError(); if (err != cudaSuccess) { std::cerr << "CUDA Error: "
\* << cudaGetErrorString(err) << std::endl; }
GetLastError ==
    /\ AtStmt
    /\ Cur.kind = "cudaGetLastError"
    /\ IF lastErr # "cudaSuccess"
       THEN /\ detected' = detected \cup {lastErr}
            /\ reported' = reported \cup {"CUDA Error"}
       ELSE UNCHANGED <<detected, reported>>
    /\ lastErr' = "cudaSuccess"
    /\ hpc' = hpc + 1
    /\ UNCHANGED <<prog, argc, stage, exitCode, argsRead, ran>>
    /\ UNCHANGED <<kernelVars, ompVars, gpuVars>>

\* if (!ref.checkRef(refC)) { std::cerr << "check ref failed!" << std::endl; };
CheckRef ==
    /\ AtStmt
    /\ Cur.kind = "checkRef"
    /\ \E equal \in BOOLEAN :
          reported' = IF equal THEN reported ELSE reported \cup {"check ref failed!"}
    /\ hpc' = hpc + 1
    /\ UNCHANGED <<prog, argc, stage, exitCode, argsRead, lastErr, detected, ran>>
    /\ UNCHANGED <<kernelVars, ompVars, gpuVars>>

\* part_000: initialize(C, M * N), or name(A, B, C, M, N, K)
HostCall ==
    /\ AtStmt
    /\ Cur.kind = "host"
    /\ ran' = IF Cur.what = "kernel" THEN ran \cup {Cur.name} ELSE ran
    /\ hpc' = hpc + 1
    /\ UNCHANGED <<prog, argc, stage, exitCode, argsRead, lastErr, detected, reported>>
    /\ UNCHANGED <<kernelVars, ompVars, gpuVars>>

\* return 0;
MainReturn ==
    /\ stage = "body"
    /\ hpc = Len(MainBody) + 1
    /\ Exit(0)
    /\ UNCHANGED <<prog, argc, hpc, argsRead, lastErr, detected, reported, ran>>
    /\ UNCHANGED <<kernelVars, ompVars, gpuVars>>

NextMain ==
    \/ ArgcGuard
    \/ ParseArgs
    \/ CudaCheck
    \/ Unchecked
    \/ KernelLaunch
    \/ GetLastError
    \/ CheckRef
    \/ HostCall
    \/ MainReturn

SpecMain == InitMain /\ [][NextMain]_vars

----------------------------------------------------------------------------
(* C6                                                                      *)

\* C6: in the GPU harness, started with its three arguments, a failed device allocation, a failed host/device copy
\* and a failed kernel launch are fatal: once the program has seen one, it has
\* printed the error and exited with EXIT_FAILURE, and nothing of main runs after
\* it; a checkRef mismatch is printed and main goes on.
C6_DeviceFailuresAreFatal ==
    (prog = "gpu" /\ argc > 3) =>
        /\ (detected \cap {"alloc", "copy", "launch"}) # {} =>
              /\ stage = "exited"
              /\ exitCode = <<EXIT_FAILURE>>
              /\ reported \cap {"CUDA API failed", "CUDA Error"} # {}
        /\ ("check ref failed!" \in reported /\ detected = {}) =>
              exitCode \in {NotExited, <<0>>}

----------------------------------------------------------------------------
(* C7                                                                      *)

Positional == argc - 1

\* C7: with fewer than three positional arguments main of either harness program
\* reads no argument and runs no kernel, and returns 1; with three it ends, and
\* unless a device failure ended it, it returns 0.
C7_MissingArgumentsExit1 ==
    /\ Positional < 3 =>
          /\ argsRead = {}
          /\ ran = {}
          /\ stage \in {"entry", "exited"}
          /\ stage = "exited" => exitCode = <<1>> /\ reported = {"Usage"}
    /\ (Positional = 3 /\ stage = "exited" /\ detected = {}) => exitCode = <<0>>

============================================================================
